---------------------------- MODULE Spec2Model ----------------------------
(***************************************************************************)
(* A model of the BEKD benchmark scripts                                   *)
(*   src/scripts/Perfomance Testing/complexity_analysis.py                 *)
(*   src/scripts/generate_deployment_params.py                             *)
(* and of the enrollment / authentication protocol they time.              *)
(*                                                                         *)
(* Abstractions.  secp256k1 is a cyclic group of prime order N; a point is *)
(* modelled by its discrete logarithm to the base G, so scalar             *)
(* multiplication and point addition are arithmetic modulo N.  N itself is *)
(* a small prime standing for the 256-bit group order.  keccak is a        *)
(* library hash; it is modelled by a fixed deterministic fold to a two     *)
(* byte digest.  The 32-byte strings of secrets.token_bytes(32) are drawn  *)
(* from a two-element set of one-byte strings.                             *)
(*                                                                         *)
(* The scripts time the primitives only.  The orchestrators that assemble  *)
(* a token, unmask the shares, recombine the commitment and consult the    *)
(* spend-tracking store are not in src/; they follow the specification     *)
(* (sections 4.5, 4.6, 6 and 8) and are built from the primitives above.   *)
(***************************************************************************)
EXTENDS Integers, Sequences, FiniteSets, TLC

\* ------------------------------------------------------------------ bounds
MaxT == 2
MaxN == 3
MaxShares == 3

\* Largest threshold and largest number of features of an enrollment
MaxThreshold == 1
MaxFeatures == 3

\* Largest number of trials of a phase measurement
MaxTrials == 2

\* ------------------------------------------------- group and scalar arithmetic
\* self.N = secp256k1.N : the prime group order
N == 7
\* self.G = secp256k1.G : the generator, as a discrete logarithm
G == [e |-> 1]

Scalars == 0 .. (N - 1)

\* secrets.randbelow(m): an integer in [0, m)
RandBelow(m) == 0 .. (m - 1)

\* A draw without the shift by one: secrets.randbelow(self.N)
RandScalarUnshifted == RandBelow(N)

\* secrets.randbelow(self.N - 1) + 1
RandScalar == {x + 1 : x \in RandBelow(N - 1)}

\* secrets.token_bytes(32)
TokenBytes == {<<1>>, <<2>>}

\* secp256k1.multiply(P, k)
Multiply(P, k) == [e |-> (P.e * k) % N]

\* A fold step of the digest, and the digest of a byte string
RECURSIVE KeccakFold(_, _)
KeccakFold(h, data) ==
    IF data = <<>> THEN h
    ELSE LET x == (h % 256) + Head(data)
         IN  KeccakFold((x * x * 33 + h) % 65536, Tail(data))

Keccak(data) ==
    LET h == KeccakFold(7, data) IN <<h \div 256, h % 256>>

\* int.from_bytes(b, 'big')
RECURSIVE FromBytesBig(_)
FromBytesBig(b) ==
    IF b = <<>> THEN 0
    ELSE FromBytesBig(SubSeq(b, 1, Len(b) - 1)) * 256 + b[Len(b)]

\* The domain separation tag b"H0"
TagH0 == <<72, 48>>

\* measure_hash_to_scalar: data = b"H0" + Wi + salt; keccak; from_bytes % N
H0Measure(Wi, salt) ==
    LET data == TagH0 \o Wi \o salt
        hash_output == Keccak(data)
    IN  FromBytesBig(hash_output) % N

\* wi hashed without the salt
H0EnrollUnsalted(Wi, salt) == FromBytesBig(Keccak(TagH0 \o Wi)) % N

\* measure_enrollment_phase: wi
H0Enroll(Wi, salt) == FromBytesBig(Keccak(TagH0 \o Wi \o salt)) % N

\* The digest read with the least significant byte first
RECURSIVE FromBytesLittle(_)
FromBytesLittle(b) ==
    IF b = <<>> THEN 0 ELSE Head(b) + 256 * FromBytesLittle(Tail(b))

\* wi_prime computed from the little-endian reading of the digest
H0AuthLittleEndian(Wi_prime, salt) ==
    FromBytesLittle(Keccak(TagH0 \o Wi_prime \o salt)) % N

\* measure_authentication_phase: wi_prime
H0Auth(Wi_prime, salt) == FromBytesBig(Keccak(TagH0 \o Wi_prime \o salt)) % N

\* ------------------------------------------------------------ Shamir sharing
RECURSIVE Pow(_, _)
Pow(b, x) == IF x = 0 THEN 1 ELSE b * Pow(b, x - 1)

\* sum(coeff * (i ** j) for j, coeff in enumerate(coefficients))
RECURSIVE PolySum(_, _, _)
PolySum(coefficients, i, len) ==
    IF len = 0 THEN 0
    ELSE PolySum(coefficients, i, len - 1) + coefficients[len] * Pow(i, len - 1)

\* share = sum(...) % self.N
PolyEval(coefficients, i) == PolySum(coefficients, i, Len(coefficients)) % N

\* shares = [(i, share) for i in 1..n]
EvalShares(coefficients, nn) ==
    [i \in 1 .. nn |-> <<i, PolyEval(coefficients, i)>>]

\* coefficients = [secrets.randbelow(self.N - 1) + 1 for _ in range(t)]
DrawCoefficients(tt) == [1 .. tt -> RandScalar]

\* ----------------------------------------------------- Lagrange interpolation
Min(a, b) == IF a < b THEN a ELSE b

\* shares[:t+1]
Prefix(s, tt) == SubSeq(s, 1, Min(tt + 1, Len(s)))

\* Numerator with the sign of xj lost: xj instead of (0 - xj)
RECURSIVE NumeratorUnsigned(_, _, _)
NumeratorUnsigned(used, i, len) ==
    IF len = 0 THEN 1
    ELSE IF len = i THEN NumeratorUnsigned(used, i, len - 1)
    ELSE (NumeratorUnsigned(used, i, len - 1) * used[len][1]) % N

\* The inner loop over j, for the first len entries: numerator
RECURSIVE Numerator(_, _, _)
Numerator(used, i, len) ==
    IF len = 0 THEN 1
    ELSE IF len = i THEN Numerator(used, i, len - 1)
    ELSE (Numerator(used, i, len - 1) * (0 - used[len][1])) % N

\* Denominator built from (0 - xj), the numerator's factor, instead of (xi - xj)
RECURSIVE DenominatorOfNumerator(_, _, _)
DenominatorOfNumerator(used, i, len) ==
    IF len = 0 THEN 1
    ELSE IF len = i THEN DenominatorOfNumerator(used, i, len - 1)
    ELSE (DenominatorOfNumerator(used, i, len - 1) * (0 - used[len][1])) % N

\* The inner loop over j, for the first len entries: denominator
RECURSIVE Denominator(_, _, _)
Denominator(used, i, len) ==
    IF len = 0 THEN 1
    ELSE IF len = i THEN Denominator(used, i, len - 1)
    ELSE (Denominator(used, i, len - 1) * (used[i][1] - used[len][1])) % N

\* pow(denominator, -1, self.N) raises ValueError when there is no inverse
HasInverse(d) == \E x \in 1 .. (N - 1) : (d * x) % N = 1

ModInverse(d) == CHOOSE x \in 1 .. (N - 1) : (d * x) % N = 1

\* lambda_i with the modular inverse left out: numerator * denominator
LambdaINoInverse(used, i) ==
    (Numerator(used, i, Len(used)) * Denominator(used, i, Len(used))) % N

\* lambda_i with the division left out: the numerator alone
LambdaINumeratorOnly(used, i) == Numerator(used, i, Len(used))

\* lambda_i = (numerator * pow(denominator, -1, self.N)) % self.N
LambdaI(used, i) ==
    (Numerator(used, i, Len(used)) * ModInverse(Denominator(used, i, Len(used)))) % N

\* secret after the first len iterations of the outer loop
RECURSIVE SecretSum(_, _)
SecretSum(used, len) ==
    IF len = 0 THEN 0
    ELSE (SecretSum(used, len - 1) + used[len][2] * LambdaI(used, len)) % N

\* The interpolation at x = 0 of shares[:t+1]: the secret, or the ValueError
\* of the first modular inverse that does not exist
Lagrange(sh, tt) ==
    LET used == Prefix(sh, tt) IN
    IF \E i \in 1 .. Len(used) : ~HasInverse(Denominator(used, i, Len(used)))
    THEN [status |-> "ValueError", value |-> 0]
    ELSE [status |-> "ok", value |-> SecretSum(used, Len(used))]

NoResult == [status |-> "none", value |-> 0]

\* ------------------------------------------------------------------ state
VARIABLES
    t, n, coefficients, shares,      \* measure_shamir_sharing: one trial
    lg_t, lg_shares, secret,         \* measure_lagrange_interpolation: one trial
    hts,                             \* measure_hash_to_scalar: one trial
    enroll,                          \* measure_enrollment_phase: one trial
    auth,                            \* measure_authentication_phase: one trial
    sm,                              \* measure_scalar_multiplication: one trial
    space,                           \* analyze_space_complexity: one call
    keys,                            \* generate_deployment_params.main
    an_pc, results, printed,         \* run_full_analysis: position, self.results, stdout
    sweep, calls, files,              \* analyze_scalability locals, current call, outputs
    enr_pc, cfg, enr, token,         \* the enrollment orchestrator
    used,                            \* the spend-tracking collaborator
    procs, au_pc, au_W, au_result, au_Kp, au_ops,  \* authentication calls
    passed                           \* history: calls let past the replay check

shamirVars == <<t, n, coefficients, shares>>
lagrangeVars == <<lg_t, lg_shares, secret>>
trialVars == <<hts, enroll, auth, sm, space, keys>>
analysisVars == <<an_pc, results, printed, sweep, calls, files>>
benchVars == <<trialVars, analysisVars>>
enrollVars == <<enr_pc, cfg, enr, token>>
authVars == <<used, procs, au_pc, au_W, au_result, au_Kp, au_ops, passed>>
vars == <<shamirVars, lagrangeVars, benchVars, enrollVars, authVars>>

\* ------------------------------------------------------- initial values
NoTrial == [done |-> FALSE]

NoPoint == [e |-> 0 - 1]

NoToken ==
    [salts |-> <<>>, R0 |-> NoPoint, R1 |-> NoPoint, maskedShares |-> <<>>,
     signature |-> <<>>, tokenId |-> 0]

NoEnrollment ==
    [k |-> 0, K |-> NoPoint, r |-> 0, R0 |-> NoPoint, cs |-> <<>>, f |-> <<>>,
     W |-> <<>>, salts |-> <<>>, w |-> <<>>, maskedShares |-> <<>>,
     signature |-> <<>>]

NoOps == [hash |-> 0, scalar_mult |-> 0, point_add |-> 0, lagrange |-> 0]

\* The callers that may run an authentication
Procs == {1, 2}

ShamirIdle ==
    /\ t = 0 /\ n = 0 /\ coefficients = <<>> /\ shares = <<>>
    /\ lg_t = 0 /\ lg_shares = <<>> /\ secret = NoResult

\* An entry of self.results that has not been written
NoEntry == [set |-> FALSE]

\* self.results = {"time_complexity": {}, "space_complexity": {},
\*                 "operation_counts": {}}
NoResults ==
    [time_complexity |->
        [scalar_multiplication |-> NoEntry, hash_to_scalar |-> NoEntry,
         shamir_sharing |-> NoEntry, lagrange_interpolation |-> NoEntry,
         enrollment_phase |-> NoEntry, authentication_phase |-> NoEntry],
     space_complexity |-> NoEntry,
     operation_counts |-> [enrollment |-> NoEntry, authentication |-> NoEntry],
     scalability |-> NoEntry]

\* The lists of analyze_scalability before its loop
NoSweep ==
    [i |-> 0, enrollment_times |-> <<>>, authentication_times |-> <<>>,
     storage_sizes |-> <<>>]

\* Nothing printed, nothing written to the output directory
NoOutput == [enroll |-> NoEntry, auth |-> NoEntry, space |-> NoEntry]

NoFiles == [json |-> NoEntry, tex |-> NoEntry]

AnalysisIdle ==
    /\ an_pc = "run_full_analysis" /\ results = NoResults
    /\ printed = NoOutput /\ sweep = NoSweep /\ calls = {} /\ files = NoFiles

TrialsIdle ==
    /\ hts = NoTrial /\ enroll = NoTrial /\ auth = NoTrial
    /\ sm = NoTrial /\ space = NoTrial /\ keys = NoTrial

BenchIdle == TrialsIdle /\ AnalysisIdle

EnrollIdle ==
    /\ enr_pc = "Idle" /\ cfg = [t |-> 0, n |-> 0]
    /\ enr = NoEnrollment /\ token = NoToken

AuthIdle ==
    /\ used = {}
    /\ au_pc = [p \in Procs |-> "idle"]
    /\ au_W = [p \in Procs |-> <<>>]
    /\ au_result = [p \in Procs |-> "none"]
    /\ au_Kp = [p \in Procs |-> NoPoint]
    /\ au_ops = [p \in Procs |-> NoOps]
    /\ passed = 0

\* ------------------------------------------------------ the sharing trials
ShamirInit == ShamirIdle /\ BenchIdle /\ EnrollIdle /\ AuthIdle /\ procs = {}

\* One trial of measure_shamir_sharing(t, n)
ShamirTrial ==
    /\ ShamirIdle
    /\ \E tt \in 0 .. MaxT, nn \in 0 .. MaxN :
         \E cs \in DrawCoefficients(tt) :
           /\ t' = tt /\ n' = nn
           /\ coefficients' = cs
           /\ shares' = EvalShares(cs, nn)
           /\ lg_t' = 0 /\ lg_shares' = <<>> /\ secret' = NoResult
    /\ UNCHANGED <<benchVars, enrollVars, authVars>>

\* One trial of measure_lagrange_interpolation(t): dummy shares at 1..t+1
LagrangeTrial ==
    /\ ShamirIdle
    /\ \E tt \in 0 .. MaxT :
         \E ys \in [1 .. (tt + 1) -> RandScalar] :
           LET dummy == [i \in 1 .. (tt + 1) |-> <<i, ys[i]>>] IN
           /\ lg_t' = tt
           /\ lg_shares' = dummy
           /\ secret' = Lagrange(dummy, tt)
           /\ t' = 0 /\ n' = 0 /\ coefficients' = <<>> /\ shares' = <<>>
    /\ UNCHANGED <<benchVars, enrollVars, authVars>>

\* Sequences of at most len elements of S, repeats allowed
RECURSIVE SeqsUpTo(_, _)
SeqsUpTo(S, len) ==
    IF len = 0 THEN {<<>>}
    ELSE LET shorter == SeqsUpTo(S, len - 1) IN
         shorter \cup {Append(s, x) : s \in {q \in shorter : Len(q) = len - 1}, x \in S}

Range(s) == {s[i] : i \in 1 .. Len(s)}

\* The interpolation loop applied to shares of the last sharing, with a
\* declared threshold
Reconstruct ==
    /\ shares # <<>>
    /\ secret = NoResult
    /\ \E tt \in 0 .. MaxT, input \in SeqsUpTo(Range(shares), MaxShares) :
        /\ lg_t' = tt
        /\ lg_shares' = input
        /\ secret' = Lagrange(input, tt)
    /\ UNCHANGED <<shamirVars, benchVars, enrollVars, authVars>>

\* The end of a trial's loop iteration: its locals are dropped
ShamirTrialEnd ==
    /\ ~ShamirIdle
    /\ t' = 0 /\ n' = 0 /\ coefficients' = <<>> /\ shares' = <<>>
    /\ lg_t' = 0 /\ lg_shares' = <<>> /\ secret' = NoResult
    /\ UNCHANGED <<benchVars, enrollVars, authVars>>

ShamirNext == ShamirTrial \/ LagrangeTrial \/ Reconstruct \/ ShamirTrialEnd

SpecShamir == ShamirInit /\ [][ShamirNext]_vars

\* ------------------------------------------------- the phase measurements
\* ops[key] += 1
Inc(ops, key) == [ops EXCEPT ![key] = @ + 1]

\* The tally after len iterations of the enrollment trial's feature loop
RECURSIVE EnrollLoopOps(_, _)
EnrollLoopOps(ops, len) ==
    IF len = 0 THEN ops
    ELSE Inc(Inc(Inc(EnrollLoopOps(ops, len - 1), "hash"), "scalar_mult"), "point_add")

\* The tally of one enrollment trial: K, R0, then the loop over the features
EnrollTrialOps(nn) ==
    LET ops == [scalar_mult |-> 0, point_add |-> 0, hash |-> 0]
    IN  EnrollLoopOps(Inc(Inc(ops, "scalar_mult"), "scalar_mult"), nn)

\* The tally after len iterations of the authentication trial's feature loop
RECURSIVE AuthLoopOps(_, _)
AuthLoopOps(ops, len) ==
    IF len = 0 THEN ops
    ELSE Inc(Inc(Inc(AuthLoopOps(ops, len - 1), "hash"), "scalar_mult"), "point_add")

\* The tally of a trial that leaves out the authority's helper multiplication
AuthTrialOpsNoHelper(nn, tt) ==
    LET ops == [scalar_mult |-> 0, point_add |-> 0, hash |-> 0, lagrange |-> 0]
    IN  [AuthLoopOps(ops, nn) EXCEPT !.lagrange = Pow(tt + 1, 2)]

\* The tally of one authentication trial: the loop, ops["lagrange"] =
\* (t + 1) ** 2, then the authority's helper multiplication
AuthTrialOps(nn, tt) ==
    LET ops == [scalar_mult |-> 0, point_add |-> 0, hash |-> 0, lagrange |-> 0]
        looped == AuthLoopOps(ops, nn)
    IN  Inc([looped EXCEPT !.lagrange = Pow(tt + 1, 2)], "scalar_mult")

\* operation_counts after num appends of a trial's tally
RECURSIVE OperationCounts(_, _)
OperationCounts(ops, num) ==
    IF num = 0 THEN <<>> ELSE Append(OperationCounts(ops, num - 1), ops)

\* sum of ops[key] over the first len tallies
RECURSIVE SumKey(_, _, _)
SumKey(counts, key, len) ==
    IF len = 0 THEN 0 ELSE SumKey(counts, key, len - 1) + counts[len][key]

\* np.mean of the tallies of one key, as a fraction in lowest terms when the
\* division is exact
Mean(counts, key) ==
    LET total == SumKey(counts, key, Len(counts)) IN
    IF total % Len(counts) = 0
    THEN [num |-> total \div Len(counts), den |-> 1]
    ELSE [num |-> total, den |-> Len(counts)]

\* avg_ops = {key: np.mean(...) for key in operation_counts[0].keys()}
AvgOps(counts) == [key \in DOMAIN counts[1] |-> Mean(counts, key)]

\* sum(d.values())
RECURSIVE SumValues(_, _)
SumValues(d, keyset) ==
    IF keyset = {} THEN 0
    ELSE LET key == CHOOSE x \in keyset : TRUE
         IN  d[key] + SumValues(d, keyset \ {key})

\* b / 1024, kept as a fraction
Kb(b) == <<b, 1024>>

\* analyze_space_complexity(n, t): the sizes and the entry written to
\* self.results["space_complexity"]
SpaceComplexity(nn, tt) ==
    LET token_size ==
            [salt |-> 32, R0 |-> 64, R1 |-> 64, sigma |-> 65, Ai |-> 64 * nn]
        total_token_bytes == SumValues(token_size, DOMAIN token_size)
        onchain_size ==
            [token_id_rho |-> 32, used_flag |-> 1, ca_public_key |-> 64,
             owner_address |-> 20]
        total_onchain_bytes == SumValues(onchain_size, DOMAIN onchain_size)
    IN  [set |-> TRUE,
         offchain_token_bytes |-> total_token_bytes,
         offchain_token_kb |-> Kb(total_token_bytes),
         offchain_breakdown |-> token_size,
         onchain_storage_bytes |-> total_onchain_bytes,
         onchain_storage_kb |-> Kb(total_onchain_bytes),
         onchain_breakdown |-> onchain_size,
         complexity |-> [n |-> nn]]

BenchInit == ShamirIdle /\ BenchIdle /\ EnrollIdle /\ AuthIdle /\ procs = {}

\* One trial of measure_scalar_multiplication
ScalarMultiplicationTrial ==
    /\ BenchIdle
    /\ \E k \in RandScalar :
         sm' = [done |-> TRUE, k |-> k, K |-> Multiply(G, k)]
    /\ UNCHANGED <<hts, enroll, auth, space, keys, analysisVars>>
    /\ UNCHANGED <<shamirVars, lagrangeVars, enrollVars, authVars>>

\* One trial of measure_hash_to_scalar
HashToScalarTrial ==
    /\ BenchIdle
    /\ \E Wi \in TokenBytes, salt \in TokenBytes :
         hts' = [done |-> TRUE, Wi |-> Wi, salt |-> salt, wi |-> H0Measure(Wi, salt)]
    /\ UNCHANGED <<enroll, auth, sm, space, keys, analysisVars>>
    /\ UNCHANGED <<shamirVars, lagrangeVars, enrollVars, authVars>>

\* A call of measure_enrollment_phase(n, num_trials), seen after its last
\* trial: that trial's locals, the tallies of all trials and their average
EnrollmentTrial ==
    /\ BenchIdle
    /\ \E nn \in 1 .. MaxN, num_trials \in 1 .. MaxTrials,
          k \in RandScalar, r \in RandScalar :
         \E Wi \in [1 .. nn -> TokenBytes], salt \in [1 .. nn -> TokenBytes] :
           LET K == Multiply(G, k)
               R0 == Multiply(G, r)
               wi == [i \in 1 .. nn |-> H0Enroll(Wi[i], salt[i])]
               temp == [i \in 1 .. nn |-> Multiply(R0, wi[i])]
               ops == EnrollTrialOps(nn)
               operation_counts == OperationCounts(ops, num_trials)
           IN  enroll' = [done |-> TRUE, n |-> nn, num_trials |-> num_trials,
                          k |-> k, K |-> K, r |-> r,
                          R0 |-> R0, Wi |-> Wi, salt |-> salt, wi |-> wi,
                          temp |-> temp, ops |-> ops,
                          operation_counts |-> operation_counts,
                          avg_ops |-> AvgOps(operation_counts)]
    /\ UNCHANGED <<hts, auth, sm, space, keys, analysisVars>>
    /\ UNCHANGED <<shamirVars, lagrangeVars, enrollVars, authVars>>

\* A call of measure_authentication_phase(n, t, num_trials), seen after its
\* last trial
AuthenticationTrial ==
    /\ BenchIdle
    /\ \E nn \in 1 .. MaxN, tt \in 0 .. MaxT, num_trials \in 1 .. MaxTrials :
         \E Wi_prime \in [1 .. nn -> TokenBytes], salt \in [1 .. nn -> TokenBytes] :
           LET wi_prime == [i \in 1 .. nn |-> H0Auth(Wi_prime[i], salt[i])]
               ops == AuthTrialOps(nn, tt)
               operation_counts == OperationCounts(ops, num_trials)
           IN  auth' = [done |-> TRUE, n |-> nn, t |-> tt,
                        num_trials |-> num_trials, Wi_prime |-> Wi_prime,
                        salt |-> salt, wi_prime |-> wi_prime, ops |-> ops,
                        operation_counts |-> operation_counts,
                        avg_ops |-> AvgOps(operation_counts)]
    /\ UNCHANGED <<hts, enroll, sm, space, keys, analysisVars>>
    /\ UNCHANGED <<shamirVars, lagrangeVars, enrollVars, authVars>>

\* A call of analyze_space_complexity(n, t)
SpaceAnalysis ==
    /\ BenchIdle
    /\ \E nn \in 1 .. MaxN, tt \in 0 .. MaxT :
         LET entry == SpaceComplexity(nn, tt) IN
         space' = [done |-> TRUE, n |-> nn, t |-> tt,
                   total_token_bytes |-> entry.offchain_token_bytes,
                   total_onchain_bytes |-> entry.onchain_storage_bytes,
                   entry |-> entry]
    /\ UNCHANGED <<hts, enroll, auth, sm, keys, analysisVars>>
    /\ UNCHANGED <<shamirVars, lagrangeVars, enrollVars, authVars>>

\* generate_ca_keypair: sk drawn, pk = multiply(G, sk)
GenerateCaKeypair == {[sk |-> sk, pk |-> Multiply(G, sk)] : sk \in RandScalar}

\* main of generate_deployment_params: the authority's and the owner's keypair
DeploymentParams ==
    /\ BenchIdle
    /\ \E ca \in GenerateCaKeypair, owner \in GenerateCaKeypair :
         keys' = [done |-> TRUE, ca_sk |-> ca.sk, ca_pk |-> ca.pk,
                  owner_sk |-> owner.sk, owner_pk |-> owner.pk]
    /\ UNCHANGED <<hts, enroll, auth, sm, space, analysisVars>>
    /\ UNCHANGED <<shamirVars, lagrangeVars, enrollVars, authVars>>

\* The end of a trial's loop iteration or of a call: its locals are dropped
TrialEnd ==
    /\ ~TrialsIdle
    /\ hts' = NoTrial /\ enroll' = NoTrial /\ auth' = NoTrial
    /\ sm' = NoTrial /\ space' = NoTrial /\ keys' = NoTrial
    /\ UNCHANGED <<analysisVars, shamirVars, lagrangeVars, enrollVars, authVars>>

BenchNext ==
    \/ ScalarMultiplicationTrial \/ HashToScalarTrial
    \/ EnrollmentTrial \/ AuthenticationTrial
    \/ SpaceAnalysis \/ DeploymentParams \/ TrialEnd

SpecBench == BenchInit /\ [][BenchNext]_vars


\* ------------------------------------------------------- run_full_analysis
\* The defaults of the measurements: n = 3, t = 1, num_trials = 20
DefaultN == 3
DefaultT == 1
PhaseTrials == 20

\* analyze_scalability: n_values and the num_trials of its quick measurements
NValues == <<1, 3, 5, 10, 20, 50, 100>>
QuickTrials == 10

\* The mean time of a phase measurement, in ms: any of these
Times == {1, 2}

\* The mean time recorded for a basic operation: one representative value
BasicTimes == {1}

\* An entry of results["time_complexity"] of a basic operation
BasicEntry(tm, text) ==
    [set |-> TRUE, mean_ms |-> tm, complexity |-> [text |-> text]]

\* measure_enrollment_phase(n, num_trials): the averaged tallies and the
\* entry written to results["time_complexity"]["enrollment_phase"]
EnrollmentEntry(nn, num_trials, tm) ==
    [set |-> TRUE, mean_ms |-> tm,
     operations |-> AvgOps(OperationCounts(EnrollTrialOps(nn), num_trials)),
     complexity |-> [text |-> "O(n)", n |-> nn],
     description |-> [n |-> nn]]

\* measure_authentication_phase(n, t, num_trials): the averaged tallies and
\* the entry written to results["time_complexity"]["authentication_phase"]
AuthenticationEntry(nn, tt, num_trials, tm) ==
    [set |-> TRUE, mean_ms |-> tm,
     operations |-> AvgOps(OperationCounts(AuthTrialOps(nn, tt), num_trials)),
     complexity |-> [text |-> "O(n + (t+1)^2)", n |-> nn, lagrange |-> Pow(tt + 1, 2)],
     description |-> [n |-> nn, t |-> tt]]

\* self.results after measure_enrollment_phase wrote its two entries
WithEnrollment(res, entry) ==
    [res EXCEPT !.time_complexity.enrollment_phase = entry,
                !.operation_counts.enrollment = entry.operations]

\* self.results after measure_authentication_phase wrote its two entries
WithAuthentication(res, entry) ==
    [res EXCEPT !.time_complexity.authentication_phase = entry,
                !.operation_counts.authentication = entry.operations]

\* A call of a measurement that takes both a threshold and a count
Call(fn, tt, nn) == [fn |-> fn, t |-> tt, n |-> nn]

AnalysisInit == ShamirIdle /\ BenchIdle /\ EnrollIdle /\ AuthIdle /\ procs = {}

\* Section 1: measure_scalar_multiplication()
MeasureScalarMultiplication ==
    /\ an_pc = "run_full_analysis"
    /\ \E tm \in BasicTimes :
         results' = [results EXCEPT !.time_complexity.scalar_multiplication =
                        BasicEntry(tm, "O(log n)")]
    /\ an_pc' = "measure_hash_to_scalar"
    /\ UNCHANGED <<printed, sweep, calls, files, trialVars>>
    /\ UNCHANGED <<shamirVars, lagrangeVars, enrollVars, authVars>>

\* Section 1: measure_hash_to_scalar()
MeasureHashToScalar ==
    /\ an_pc = "measure_hash_to_scalar"
    /\ \E tm \in BasicTimes :
         results' = [results EXCEPT !.time_complexity.hash_to_scalar =
                        BasicEntry(tm, "O(1)")]
    /\ an_pc' = "measure_shamir_sharing"
    /\ UNCHANGED <<printed, sweep, calls, files, trialVars>>
    /\ UNCHANGED <<shamirVars, lagrangeVars, enrollVars, authVars>>

\* Section 1: measure_shamir_sharing() with t = 1, n = 3
MeasureShamirSharing ==
    /\ an_pc = "measure_shamir_sharing"
    /\ \E tm \in BasicTimes :
         results' = [results EXCEPT !.time_complexity.shamir_sharing =
                        BasicEntry(tm, "O(t x n)")]
    /\ calls' = calls \cup {Call("measure_shamir_sharing", DefaultT, DefaultN)}
    /\ an_pc' = "measure_lagrange_interpolation"
    /\ UNCHANGED <<printed, sweep, files, trialVars>>
    /\ UNCHANGED <<shamirVars, lagrangeVars, enrollVars, authVars>>

\* Section 1: measure_lagrange_interpolation() with t = 1
MeasureLagrangeInterpolation ==
    /\ an_pc = "measure_lagrange_interpolation"
    /\ \E tm \in BasicTimes :
         results' = [results EXCEPT !.time_complexity.lagrange_interpolation =
                        BasicEntry(tm, "O((t+1)^2)")]
    /\ an_pc' = "measure_enrollment_phase"
    /\ UNCHANGED <<printed, sweep, calls, files, trialVars>>
    /\ UNCHANGED <<shamirVars, lagrangeVars, enrollVars, authVars>>

\* Section 2: enroll_time = measure_enrollment_phase(), printed with n=3
MeasureEnrollmentPhase ==
    /\ an_pc = "measure_enrollment_phase"
    /\ \E tm \in Times :
         LET entry == EnrollmentEntry(DefaultN, PhaseTrials, tm) IN
         /\ results' = WithEnrollment(results, entry)
         /\ printed' = [printed EXCEPT !.enroll =
                           [set |-> TRUE, n |-> 3, time_ms |-> tm]]
    /\ an_pc' = "measure_authentication_phase"
    /\ UNCHANGED <<sweep, calls, files, trialVars>>
    /\ UNCHANGED <<shamirVars, lagrangeVars, enrollVars, authVars>>

\* Section 2: auth_time = measure_authentication_phase(), printed with n=3, t=1
MeasureAuthenticationPhase ==
    /\ an_pc = "measure_authentication_phase"
    /\ \E tm \in Times :
         LET entry == AuthenticationEntry(DefaultN, DefaultT, PhaseTrials, tm) IN
         /\ results' = WithAuthentication(results, entry)
         /\ printed' = [printed EXCEPT !.auth =
                           [set |-> TRUE, n |-> 3, t |-> 1, time_ms |-> tm]]
    /\ calls' = calls \cup {Call("measure_authentication_phase", DefaultT, DefaultN)}
    /\ an_pc' = "analyze_space_complexity"
    /\ UNCHANGED <<sweep, files, trialVars>>
    /\ UNCHANGED <<shamirVars, lagrangeVars, enrollVars, authVars>>

\* Section 3: offchain_size, onchain_size = analyze_space_complexity(), printed
AnalyzeSpaceComplexity ==
    /\ an_pc = "analyze_space_complexity"
    /\ LET entry == SpaceComplexity(DefaultN, DefaultT) IN
         /\ results' = [results EXCEPT !.space_complexity = entry]
         /\ printed' = [printed EXCEPT !.space =
                           [set |-> TRUE,
                            offchain_size |-> entry.offchain_token_bytes,
                            onchain_size |-> entry.onchain_storage_bytes]]
    /\ calls' = calls \cup {Call("analyze_space_complexity", DefaultT, DefaultN)}
    /\ an_pc' = "analyze_scalability"
    /\ UNCHANGED <<sweep, files, trialVars>>
    /\ UNCHANGED <<shamirVars, lagrangeVars, enrollVars, authVars>>

\* Section 4: one iteration of the loop of analyze_scalability over n_values,
\* and after the last one the write of results["scalability"]
AnalyzeScalability ==
    /\ an_pc = "analyze_scalability"
    /\ sweep.i < Len(NValues)
    /\ \E enroll_time \in Times, auth_time \in Times :
         LET nn == NValues[sweep.i + 1]
             e == EnrollmentEntry(nn, QuickTrials, enroll_time)
             a == AuthenticationEntry(nn, DefaultT, QuickTrials, auth_time)
             sp == SpaceComplexity(nn, DefaultT)
             token_size == sp.offchain_token_bytes
             after == [i |-> sweep.i + 1,
                       enrollment_times |-> Append(sweep.enrollment_times, enroll_time),
                       authentication_times |->
                           Append(sweep.authentication_times, auth_time),
                       storage_sizes |-> Append(sweep.storage_sizes, Kb(token_size))]
             written == [WithAuthentication(WithEnrollment(results, e), a)
                            EXCEPT !.space_complexity = sp]
         IN  /\ sweep' = after
             /\ calls' = calls \cup {Call("measure_authentication_phase", DefaultT, nn),
                                     Call("analyze_space_complexity", DefaultT, nn)}
             /\ IF after.i < Len(NValues)
                THEN /\ results' = written
                     /\ an_pc' = an_pc
                ELSE /\ results' =
                          [written EXCEPT !.scalability =
                              [set |-> TRUE, n_values |-> NValues,
                               enrollment_times_ms |-> after.enrollment_times,
                               authentication_times_ms |-> after.authentication_times,
                               storage_sizes_kb |-> after.storage_sizes]]
                     /\ an_pc' = "save_results"
    /\ UNCHANGED <<printed, files, trialVars>>
    /\ UNCHANGED <<shamirVars, lagrangeVars, enrollVars, authVars>>

\* save_results: json.dump(self.results)
SaveResults ==
    /\ an_pc = "save_results"
    /\ files' = [files EXCEPT !.json = [set |-> TRUE, results |-> results]]
    /\ an_pc' = "generate_latex_tables"
    /\ UNCHANGED <<results, printed, sweep, calls, trialVars>>
    /\ UNCHANGED <<shamirVars, lagrangeVars, enrollVars, authVars>>

\* generate_latex_tables: a row per entry of results["time_complexity"], then
\* the two sizes of results["space_complexity"]
GenerateLatexTables ==
    /\ an_pc = "generate_latex_tables"
    /\ LET tc == results.time_complexity
           sc == results.space_complexity
       IN  files' = [files EXCEPT !.tex =
              [set |-> TRUE,
               time |-> [op \in DOMAIN tc |->
                           [time_ms |-> tc[op].mean_ms,
                            complexity |-> tc[op].complexity]],
               offchain_token |-> sc.offchain_token_bytes,
               onchain_storage |-> sc.onchain_storage_bytes]]
    /\ an_pc' = "done"
    /\ UNCHANGED <<results, printed, sweep, calls, trialVars>>
    /\ UNCHANGED <<shamirVars, lagrangeVars, enrollVars, authVars>>

AnalysisNext ==
    \/ MeasureScalarMultiplication \/ MeasureHashToScalar
    \/ MeasureShamirSharing \/ MeasureLagrangeInterpolation
    \/ MeasureEnrollmentPhase \/ MeasureAuthenticationPhase
    \/ AnalyzeSpaceComplexity \/ AnalyzeScalability
    \/ SaveResults \/ GenerateLatexTables

SpecAnalysis == AnalysisInit /\ [][AnalysisNext]_vars

\* ------------------------------------------------ the protocol's operations
\* pointAdd(P, Q)
PointAdd(P, Q) == [e |-> (P.e + Q.e) % N]

\* shareSecret(k, t, n, rng): c_0 = k, c_1..c_t drawn, evaluated at 1..n
ShareSecret(k, cs, nn) == EvalShares(<<k>> \o cs, nn)

\* maskedShare_i = pointAdd(scalarMul(R0, wi), scalarMul(G, f(i)))
MaskedShare(R0, wi, fi) == PointAdd(Multiply(R0, wi), Multiply(G, fi))

\* The unmasking with the sign of w'_i lost: R0 scaled by w'_i, not by -w'_i
UnmaskNoNegation(Ai, R0, wi_prime) == PointAdd(Ai, Multiply(R0, wi_prime % N))

\* candidate_i = pointAdd(maskedShare_i, scalarMul(R0, -w'_i mod N))
Unmask(Ai, R0, wi_prime) == PointAdd(Ai, Multiply(R0, (0 - wi_prime) % N))

\* The candidates of the features in S among the first len, each paired with
\* its index, in increasing order of index
RECURSIVE CandidatePairs(_, _, _)
CandidatePairs(S, cands, len) ==
    IF len = 0 THEN <<>>
    ELSE IF len \in S
         THEN Append(CandidatePairs(S, cands, len - 1), <<len, cands[len]>>)
         ELSE CandidatePairs(S, cands, len - 1)

\* K' = sum in the exponent of Lambda_i * candidate_i, first len terms
RECURSIVE CombineExp(_, _)
CombineExp(pairs, len) ==
    IF len = 0 THEN [e |-> 0]
    ELSE PointAdd(CombineExp(pairs, len - 1),
                  Multiply(pairs[len][2], LambdaI(pairs, len)))

\* The commitment recombined from the candidates of the features in S
Recombine(S, cands) ==
    LET pairs == CandidatePairs(S, cands, Len(cands))
    IN  CombineExp(pairs, Len(pairs))

\* The candidates of the first len features: w'_i = H0(W'_i, salt_i), unmasked
RECURSIVE Candidates(_, _, _)
Candidates(tok, W_prime, len) ==
    IF len = 0 THEN <<>>
    ELSE Append(Candidates(tok, W_prime, len - 1),
                Unmask(tok.maskedShares[len], tok.R0,
                       H0Auth(W_prime[len], tok.salts[len])))

\* A subset of at least t+1 candidates that reconstructs K
Qualifying(S, tt, cands, K) ==
    Cardinality(S) >= tt + 1 /\ Recombine(S, cands) = K

\* The feature vectors presented to enrollment
EnrolledFeatures(nn) == {[i \in 1 .. nn |-> <<1>>]}

\* The token assembled from a finished enrollment
IssuedToken(e) ==
    [salts |-> e.salts, R0 |-> e.R0, R1 |-> e.R0,
     maskedShares |-> e.maskedShares,
     signature |-> e.signature, tokenId |-> 1]

\* ------------------------------------------------ enrollment orchestrator
\* Init: the configuration is validated; InvalidThreshold when t >= n or n < 1
EnrollBegin ==
    /\ enr_pc = "Idle"
    /\ \E tt \in 0 .. MaxThreshold, nn \in 0 .. MaxFeatures :
         IF tt >= nn \/ nn < 1
         THEN /\ enr_pc' = "InvalidThreshold"
              /\ cfg' = [t |-> tt, n |-> nn]
              /\ enr' = enr
         ELSE \E W \in EnrolledFeatures(nn) :
              /\ enr_pc' = "Init"
              /\ cfg' = [t |-> tt, n |-> nn]
              /\ enr' = [enr EXCEPT !.W = W]
    /\ UNCHANGED <<token, shamirVars, lagrangeVars, benchVars, authVars>>

\* GenerateSecret: draw k, K = scalarMul(G, k)
GenerateSecret ==
    /\ enr_pc = "Init"
    /\ \E k \in RandScalar :
         enr' = [enr EXCEPT !.k = k, !.K = Multiply(G, k)]
    /\ enr_pc' = "GenerateSecret"
    /\ UNCHANGED <<cfg, token, shamirVars, lagrangeVars, benchVars, authVars>>

\* GenerateMask: draw r, R0 = scalarMul(G, r); share k with threshold t
GenerateMask ==
    /\ enr_pc = "GenerateSecret"
    /\ \E r \in RandScalar, cs \in DrawCoefficients(cfg.t) :
         enr' = [enr EXCEPT !.r = r, !.R0 = Multiply(G, r), !.cs = cs,
                            !.f = ShareSecret(enr.k, cs, cfg.n)]
    /\ enr_pc' = "GenerateMask"
    /\ UNCHANGED <<cfg, token, shamirVars, lagrangeVars, benchVars, authVars>>

\* PerFeature: for the next feature i draw salt_i, hash, mask the share
PerFeature ==
    /\ enr_pc \in {"GenerateMask", "PerFeature"}
    /\ Len(enr.salts) < cfg.n
    /\ LET i == Len(enr.salts) + 1 IN
       \E salt \in TokenBytes :
         LET wi == H0Enroll(enr.W[i], salt) IN
         enr' = [enr EXCEPT !.salts = Append(@, salt),
                            !.w = Append(@, wi),
                            !.maskedShares =
                                Append(@, MaskedShare(enr.R0, wi, enr.f[i][2]))]
    /\ enr_pc' = "PerFeature"
    /\ UNCHANGED <<cfg, token, shamirVars, lagrangeVars, benchVars, authVars>>

\* The entropy source fails at a draw and what was built so far is emitted as
\* a token
RngFailsEmitsPartial ==
    /\ enr_pc \in {"Init", "GenerateSecret", "GenerateMask", "PerFeature"}
    /\ Len(enr.salts) < cfg.n
    /\ enr_pc' = "RngFailure"
    /\ token' = IssuedToken(enr)
    /\ UNCHANGED <<cfg, enr, shamirVars, lagrangeVars, benchVars, authVars>>

\* RngFailure: the entropy source fails at the draw of k, of r and the
\* coefficients, or of the next salt; enrollment aborts
RngFails ==
    /\ enr_pc \in {"Init", "GenerateSecret", "GenerateMask", "PerFeature"}
    /\ Len(enr.salts) < cfg.n
    /\ enr_pc' = "RngFailure"
    /\ UNCHANGED <<cfg, enr, token, shamirVars, lagrangeVars, benchVars, authVars>>

\* Assemble: all n features are masked
Assemble ==
    /\ enr_pc = "PerFeature"
    /\ Len(enr.salts) = cfg.n
    /\ enr_pc' = "Assemble"
    /\ UNCHANGED <<cfg, enr, token, shamirVars, lagrangeVars, benchVars, authVars>>

\* Sign: the authority's signature over the token is obtained
Sign ==
    /\ enr_pc = "Assemble"
    /\ enr' = [enr EXCEPT !.signature = <<"sigma", 1>>]
    /\ enr_pc' = "Sign"
    /\ UNCHANGED <<cfg, token, shamirVars, lagrangeVars, benchVars, authVars>>

\* Done: the token is emitted
EmitToken ==
    /\ enr_pc = "Sign"
    /\ token' = IssuedToken(enr)
    /\ enr_pc' = "Done"
    /\ UNCHANGED <<cfg, enr, shamirVars, lagrangeVars, benchVars, authVars>>

\* ---------------------------------------------- authentication orchestrator
\* The replay check made after the hashing and unmasking: a consumed token is
\* rejected with TokenReplay once the operations have been counted
AuthCheckReplayLate(p) ==
    /\ p \in procs
    /\ enr_pc = "Done"
    /\ au_pc[p] = "idle"
    /\ IF token.tokenId \in used
       THEN /\ au_pc' = [au_pc EXCEPT ![p] = "rejected"]
            /\ au_result' = [au_result EXCEPT ![p] = "TokenReplay"]
            /\ au_ops' = [au_ops EXCEPT ![p] =
                  [hash |-> cfg.n, scalar_mult |-> cfg.n, point_add |-> cfg.n,
                   lagrange |-> 0]]
            /\ passed' = passed
       ELSE /\ au_pc' = [au_pc EXCEPT ![p] = "proceed"]
            /\ au_result' = au_result
            /\ au_ops' = au_ops
            /\ passed' = passed + 1
    /\ UNCHANGED <<used, procs, au_W, au_Kp>>
    /\ UNCHANGED <<shamirVars, lagrangeVars, benchVars, enrollVars>>

\* The call that never asks isUsed(tokenId)
AuthCheckReplaySkipped(p) ==
    /\ p \in procs
    /\ enr_pc = "Done"
    /\ au_pc[p] = "idle"
    /\ au_pc' = [au_pc EXCEPT ![p] = "proceed"]
    /\ passed' = passed + 1
    /\ UNCHANGED <<used, procs, au_W, au_result, au_Kp, au_ops>>
    /\ UNCHANGED <<shamirVars, lagrangeVars, benchVars, enrollVars>>

\* isUsed(tokenId): a consumed token is rejected with TokenReplay
AuthCheckReplay(p) ==
    /\ p \in procs
    /\ enr_pc = "Done"
    /\ au_pc[p] = "idle"
    /\ IF token.tokenId \in used
       THEN /\ au_pc' = [au_pc EXCEPT ![p] = "rejected"]
            /\ au_result' = [au_result EXCEPT ![p] = "TokenReplay"]
            /\ passed' = passed
       ELSE /\ au_pc' = [au_pc EXCEPT ![p] = "proceed"]
            /\ au_result' = au_result
            /\ passed' = passed + 1
    /\ UNCHANGED <<used, procs, au_W, au_Kp, au_ops>>
    /\ UNCHANGED <<shamirVars, lagrangeVars, benchVars, enrollVars>>

\* Hash the fresh features, unmask, recombine in the exponent, compare with K
AuthCompute(p) ==
    /\ au_pc[p] = "proceed"
    /\ \E W_prime \in [1 .. cfg.n -> TokenBytes] :
         LET cands == Candidates(token, W_prime, cfg.n)
             subsets == SUBSET (1 .. cfg.n)
         IN  /\ au_W' = [au_W EXCEPT ![p] = W_prime]
             /\ IF \E S \in subsets : Qualifying(S, cfg.t, cands, enr.K)
                THEN /\ au_result' = [au_result EXCEPT ![p] = "Accepted"]
                     /\ au_Kp' = [au_Kp EXCEPT ![p] =
                           Recombine(CHOOSE S \in subsets :
                                         Qualifying(S, cfg.t, cands, enr.K), cands)]
                ELSE /\ au_result' = [au_result EXCEPT ![p] = "AuthenticationFailed"]
                     /\ au_Kp' = au_Kp
             /\ au_ops' = [au_ops EXCEPT ![p] =
                   [hash |-> cfg.n, scalar_mult |-> cfg.n, point_add |-> cfg.n,
                    lagrange |-> (cfg.t + 1) * (cfg.t + 1)]]
    /\ au_pc' = [au_pc EXCEPT ![p] = "computed"]
    /\ UNCHANGED <<used, procs, passed>>
    /\ UNCHANGED <<shamirVars, lagrangeVars, benchVars, enrollVars>>

\* markUsed(tokenId) that also wipes the masked shares of the caller's token
AuthMarkUsedWipesToken(p) ==
    /\ au_pc[p] = "computed"
    /\ used' = used \cup {token.tokenId}
    /\ token' = [token EXCEPT !.maskedShares = <<>>]
    /\ au_pc' = [au_pc EXCEPT ![p] = "idle"]
    /\ au_W' = [au_W EXCEPT ![p] = <<>>]
    /\ au_result' = [au_result EXCEPT ![p] = "none"]
    /\ au_Kp' = [au_Kp EXCEPT ![p] = NoPoint]
    /\ au_ops' = [au_ops EXCEPT ![p] = NoOps]
    /\ UNCHANGED <<procs, passed, enr_pc, cfg, enr>>
    /\ UNCHANGED <<shamirVars, lagrangeVars, benchVars>>

\* markUsed(tokenId) after the attempt; the call returns
AuthMarkUsed(p) ==
    /\ au_pc[p] = "computed"
    /\ used' = used \cup {token.tokenId}
    /\ au_pc' = [au_pc EXCEPT ![p] = "idle"]
    /\ au_W' = [au_W EXCEPT ![p] = <<>>]
    /\ au_result' = [au_result EXCEPT ![p] = "none"]
    /\ au_Kp' = [au_Kp EXCEPT ![p] = NoPoint]
    /\ au_ops' = [au_ops EXCEPT ![p] = NoOps]
    /\ UNCHANGED <<procs, passed>>
    /\ UNCHANGED <<shamirVars, lagrangeVars, benchVars, enrollVars>>

\* The rejected call returns
AuthReturn(p) ==
    /\ au_pc[p] = "rejected"
    /\ au_pc' = [au_pc EXCEPT ![p] = "idle"]
    /\ au_result' = [au_result EXCEPT ![p] = "none"]
    /\ UNCHANGED <<used, procs, au_W, au_Kp, au_ops, passed>>
    /\ UNCHANGED <<shamirVars, lagrangeVars, benchVars, enrollVars>>

Authenticate ==
    \E p \in Procs :
        AuthCheckReplay(p) \/ AuthCompute(p) \/ AuthMarkUsed(p) \/ AuthReturn(p)

\* One enrollment followed by the authentication calls of a single caller
ProtocolInit == ShamirIdle /\ BenchIdle /\ EnrollIdle /\ AuthIdle /\ procs = {1}

ProtocolNext ==
    \/ EnrollBegin \/ GenerateSecret \/ GenerateMask \/ PerFeature
    \/ RngFails \/ Assemble \/ Sign \/ EmitToken
    \/ Authenticate

SpecProtocol == ProtocolInit /\ [][ProtocolNext]_vars

\* --------------------------------------- two callers sharing one token
\* The record of an enrollment of the features W that drew k, r, the
\* coefficients cs and the salts
Enrolled(nn, W, k, r, cs, salts) ==
    LET f == ShareSecret(k, cs, nn)
        w == [i \in 1 .. nn |-> H0Enroll(W[i], salts[i])]
    IN  [k |-> k, K |-> Multiply(G, k), r |-> r, R0 |-> Multiply(G, r),
         cs |-> cs, f |-> f, W |-> W, salts |-> salts, w |-> w,
         maskedShares |->
             [i \in 1 .. nn |-> MaskedShare(Multiply(G, r), w[i], f[i][2])],
         signature |-> <<"sigma", 1>>]

\* An enrollment with t = 1, n = 2 has emitted its token; two callers hold it
ReplayInit ==
    /\ ShamirIdle /\ BenchIdle /\ AuthIdle /\ procs = Procs
    /\ enr_pc = "Done" /\ cfg = [t |-> 1, n |-> 2]
    /\ \E W \in EnrolledFeatures(2), k \in RandScalar, r \in RandScalar,
          cs \in DrawCoefficients(1), salts \in [1 .. 2 -> TokenBytes] :
          /\ enr = Enrolled(2, W, k, r, cs, salts)
          /\ token = IssuedToken(enr)

SpecReplay == ReplayInit /\ [][Authenticate]_vars

\* ---------------------------------------------------------------- claims
\* Two entries of a share list carry the same index
SameIndex(s, len) == \E i, j \in 1 .. len : i < j /\ s[i][1] = s[j][1]

\* The constant term of the polynomial of the last sharing: coefficient 0,
\* or 0 for the empty polynomial
ConstantTerm == IF coefficients = <<>> THEN 0 ELSE coefficients[1]

\* lg_shares is a selection of exactly t+1 shares of the last sharing, with
\* pairwise distinct indices, interpolated with the sharing's own threshold
PickedThresholdSubset ==
    /\ secret.status # "none"
    /\ shares # <<>>
    /\ t < n
    /\ lg_t = t
    /\ Len(lg_shares) = t + 1
    /\ ~SameIndex(lg_shares, Len(lg_shares))

C7_InsufficientSharesRejected ==
    (secret.status # "none" /\ Len(lg_shares) <= lg_t) => secret.status # "ok"

C9_InvalidThresholdRejected ==
    (t >= n \/ n < 1) => (coefficients = <<>> /\ shares = <<>>)

\* The scalar of (feature, salt), spelled out: the two digest bytes of
\* keccak(b"H0" + feature + salt), most significant first, reduced modulo N
DigestScalar(feature, salt) ==
    LET d == Keccak(<<72, 48>> \o feature \o salt)
        v == d[1] * 256 + d[2]
    IN  v - N * (v \div N)

\* The features of caller p's fresh reading that reproduce their
\* enrollment-time scalar
Matching(p) ==
    {i \in 1 .. cfg.n : DigestScalar(au_W[p][i], token.salts[i]) = enr.w[i]}

InverseModN(a) == CHOOSE z \in 1 .. (N - 1) : (a * z) % N = 1

\* Lagrange basis coefficient at x = 0 of index i against the indices in
\* others: the product of (0 - j) / (i - j)
RECURSIVE BasisAtZero(_, _)
BasisAtZero(i, others) ==
    IF others = {} THEN 1
    ELSE LET j == CHOOSE x \in others : TRUE
         IN  (BasisAtZero(i, others \ {j}) * ((0 - j) % N)
                 * InverseModN((i - j) % N)) % N

\* The masking offset left on candidate i by caller p's fresh feature:
\* r * (w_i - w'_i)
Offset(p, i) ==
    (enr.r * ((enr.w[i] - DigestScalar(au_W[p][i], token.salts[i])) % N)) % N

\* The offsets of the features in rest, weighted by the coefficients of S
RECURSIVE WeightedOffsets(_, _, _)
WeightedOffsets(p, S, rest) ==
    IF rest = {} THEN 0
    ELSE LET i == CHOOSE x \in rest : TRUE
         IN  (WeightedOffsets(p, S, rest \ {i})
                 + BasisAtZero(i, S \ {i}) * Offset(p, i)) % N

\* Some subset of at least t+1 candidates has offsets that cancel
OffsetsCancel(p) ==
    \E S \in SUBSET (1 .. cfg.n) :
        /\ Cardinality(S) >= cfg.t + 1
        /\ WeightedOffsets(p, S, S) = 0

IsPoint(P) == P.e \in Scalars

C14_PolynomialOfDegreeT ==
    n > 0 =>
      /\ Len(coefficients) = t + 1
      /\ Len(shares) = n
      /\ \A i \in 1 .. n :
            shares[i] = <<i, PolySum(coefficients, i, t + 1) % N>>

\* The point of the i-th share of the enrolled secret, scalarMul(G, f(i))
SharePoint(i) == Multiply(G, enr.f[i][2])

C12_TokenSizeCountsEverySalt ==
    space.done =>
      /\ space.total_token_bytes = 32 * space.n + 64 + 64 + 65 + 64 * space.n
      /\ space.entry.offchain_token_bytes = space.total_token_bytes

\* C15: the enrollment trial's per-feature value is the masked share
\* pointAdd(scalarMul(R0, w_i), scalarMul(G, f(i))) of some sharing f of the
\* trial's secret k, one for each of the n features.
C15_MaskedShareBindsShare ==
    enroll.done =>
      \E tt \in 0 .. MaxT : \E cs \in DrawCoefficients(tt) :
        \A i \in 1 .. enroll.n :
           enroll.temp[i] =
              MaskedShare(enroll.R0, enroll.wi[i],
                          ShareSecret(enroll.k, cs, enroll.n)[i][2])

\* C17: every secret scalar drawn (the enrollment trial's k and r, the
\* multiplication trial's k, the authority's and the owner's private key)
\* lies in [1, N-1]: never 0, never N or more.
C17_SecretScalarsInRange ==
    /\ enroll.done => enroll.k \in 1 .. (N - 1) /\ enroll.r \in 1 .. (N - 1)
    /\ sm.done => sm.k \in 1 .. (N - 1)
    /\ keys.done => keys.ca_sk \in 1 .. (N - 1) /\ keys.owner_sk \in 1 .. (N - 1)

\* C17 witness: the two keypairs are drawn at the two ends of the range
C17_Witness ==
    /\ keys.done /\ keys.ca_sk = N - 1 /\ keys.owner_sk = 1
    /\ keys.ca_pk = Multiply(G, N - 1)

\* A tally as np.mean returns it when it is the whole number v
Whole(v) == [num |-> v, den |-> 1]

\* C20: the tally of every trial of a phase measurement is a fixed function
\* of (n, t): enrollment scalar_mult = n + 2, point_add = n, hash = n;
\* authentication hash = n, scalar_mult = n + 1, point_add = n,
\* lagrange = (t+1)^2; the averaged tallies are exactly these values.
C20_TalliesFixedByParameters ==
    /\ enroll.done =>
         LET tally == [scalar_mult |-> enroll.n + 2, point_add |-> enroll.n,
                       hash |-> enroll.n]
         IN  /\ Len(enroll.operation_counts) = enroll.num_trials
             /\ \A j \in 1 .. enroll.num_trials : enroll.operation_counts[j] = tally
             /\ enroll.avg_ops = [key \in DOMAIN tally |-> Whole(tally[key])]
    /\ auth.done =>
         LET tally == [hash |-> auth.n, scalar_mult |-> auth.n + 1,
                       point_add |-> auth.n,
                       lagrange |-> (auth.t + 1) * (auth.t + 1)]
         IN  /\ Len(auth.operation_counts) = auth.num_trials
             /\ \A j \in 1 .. auth.num_trials : auth.operation_counts[j] = tally
             /\ auth.avg_ops = [key \in DOMAIN tally |-> Whole(tally[key])]

\* C20 witness: an authentication measurement of two trials with n = 3,
\* t = 1, whose last trial hashed two features to different scalars
C20_Witness ==
    /\ auth.done /\ auth.n = 3 /\ auth.t = 1 /\ auth.num_trials = 2
    /\ auth.wi_prime[1] # auth.wi_prime[2]
    /\ auth.avg_ops.scalar_mult = Whole(4) /\ auth.avg_ops.lagrange = Whole(4)

\* C18: once run_full_analysis and the rendering are over, the saved and
\* rendered enrollment_phase, authentication_phase, operation_counts and
\* space_complexity entries are those of the default configuration (n = 3,
\* t = 1) printed in sections 2 and 3.
C18_SavedEntriesAreDefaults ==
    an_pc = "done" =>
      LET saved == files.json.results
          e == EnrollmentEntry(3, PhaseTrials, printed.enroll.time_ms)
          a == AuthenticationEntry(3, 1, PhaseTrials, printed.auth.time_ms)
      IN  /\ saved.time_complexity.enrollment_phase = e
          /\ saved.time_complexity.authentication_phase = a
          /\ saved.operation_counts =
                [enrollment |-> e.operations, authentication |-> a.operations]
          /\ saved.space_complexity = SpaceComplexity(3, 1)
          /\ files.tex.time.enrollment_phase.time_ms = printed.enroll.time_ms
          /\ files.tex.time.authentication_phase.time_ms = printed.auth.time_ms
          /\ files.tex.offchain_token = printed.space.offchain_size

\* C19: every (t, n) with which a measurement has been called satisfies
\* t < n.
C19_EveryCallBelowCount ==
    \A c \in calls : c.t < c.n

\* C10: every scalar computed by the hash-to-scalar measurement, by an
\* enrollment trial and by an authentication trial lies in [0, N) and is the
\* big-endian integer of keccak("H0" || feature || salt) reduced mod N: the
\* same function of (feature, salt) at the three places.
C10_H0SameScalarEverywhere ==
    /\ hts.done =>
         /\ hts.wi \in 0 .. (N - 1)
         /\ hts.wi = DigestScalar(hts.Wi, hts.salt)
    /\ enroll.done =>
         \A i \in 1 .. enroll.n :
            /\ enroll.wi[i] \in 0 .. (N - 1)
            /\ enroll.wi[i] = DigestScalar(enroll.Wi[i], enroll.salt[i])
    /\ auth.done =>
         \A i \in 1 .. auth.n :
            /\ auth.wi_prime[i] \in 0 .. (N - 1)
            /\ auth.wi_prime[i] = DigestScalar(auth.Wi_prime[i], auth.salt[i])

\* C10 witness: an authentication trial over three features whose scalars
\* are not all equal
C10_Witness ==
    /\ auth.done /\ auth.n = 3
    /\ auth.wi_prime[1] # auth.wi_prime[2]
    /\ auth.wi_prime[3] = DigestScalar(auth.Wi_prime[3], auth.salt[3])

=============================================================================
